---- MODULE Spec2Model ----
(***************************************************************************)
(* Model of the theme-state controller of src/contexts/theme.tsx           *)
(* (ThemeProvider): the stored preference in localStorage, the React state *)
(* {displayTheme, actualTheme}, the closures of the last committed render, *)
(* the matchMedia change listener, the document's "dark" class, the two    *)
(* audio buffers, and the inline pre-paint script.                         *)
(*                                                                         *)
(* React specifics that the model keeps:                                   *)
(*  - `state` is the latest state (all queued setState calls applied);     *)
(*    `rendered` is the state of the last committed render, which is what  *)
(*    the switchTheme closure reads (line 41 reads `state` of its render); *)
(*  - the change listener captures state.displayTheme of the render whose  *)
(*    effect registered it (line 74) and is replaced only when the effect  *)
(*    with deps [state.displayTheme] runs again (lines 71-85);             *)
(*  - effects run after the commit, as a step of their own.                *)
(***************************************************************************)
EXTENDS Integers, Sequences, FiniteSets, TLC

VARIABLES pc, stored, os, pending, state, rendered, listeners, depActual,
          docDark, audio, last, chain, boot, pristine

vars == <<pc, stored, os, pending, state, rendered, listeners, depActual,
          docDark, audio, last, chain, boot, pristine>>

\* ------------------------------------------------------------------ bounds
\* OS change events queued by the browser and not yet dispatched.
MaxPending == 2

\* ------------------------------------------------------------- vocabulary
\* JavaScript null: the value of getItem for an absent key, and the initial
\* displayTheme / actualTheme.
NULL == "<null>"
\* A stored string that is none of the three theme names.
UNKNOWN == "sepia"
\* The subscription effect has no listener registered.
NOLISTENER == "<none>"
\* The apply effect (deps [state.actualTheme]) has not run yet.
NODEP == "<never>"

DisplayThemes == {"light", "dark", "system"}
ActualThemes == {"light", "dark"}
StoredValues == DisplayThemes \cup {NULL, UNKNOWN}

DISPLAY_THEMES_ORDER == <<"light", "dark", "system">>

ThemeState(d, a) == [displayTheme |-> d, actualTheme |-> a]

\* Array.prototype.findIndex over DISPLAY_THEMES_ORDER: the 0-based index of
\* the first element equal to t, or -1.
RECURSIVE FindFrom(_, _)
FindFrom(t, i) ==
  IF i > Len(DISPLAY_THEMES_ORDER) THEN -1
  ELSE IF DISPLAY_THEMES_ORDER[i] = t THEN i - 1
  ELSE FindFrom(t, i + 1)

\* A findIndex that gives 0 instead of -1 when nothing matches.
findIndexZeroWhenMissing(t) ==
  IF FindFrom(t, 1) = -1 THEN 0 ELSE FindFrom(t, 1)

findIndex(t) == FindFrom(t, 1)

\* DISPLAY_THEMES_ORDER[(currentIndex + 1) % DISPLAY_THEMES_ORDER.length]
\* (0-based array access; an index outside the array gives undefined, which
\* is modelled as NULL).
ArrayAt(i) ==
  IF i >= 0 /\ i < Len(DISPLAY_THEMES_ORDER) THEN DISPLAY_THEMES_ORDER[i + 1]
  ELSE NULL

\* switchTheme without the wrap-around of the index.
NextDisplayThemeNoWrap(cur) == ArrayAt(findIndex(cur) + 1)

NextDisplayTheme(cur) ==
  ArrayAt((findIndex(cur) + 1) % Len(DISPLAY_THEMES_ORDER))

\* getActualTheme testing the media query the wrong way round.
getActualThemeInverted(displayTheme, o) ==
  IF displayTheme # "system" THEN displayTheme
  ELSE IF o THEN "light"
  ELSE "dark"

\* getActualTheme(displayTheme) with window.matchMedia(...).matches = o.
getActualTheme(displayTheme, o) ==
  IF displayTheme # "system" THEN displayTheme
  ELSE IF o THEN "dark"
  ELSE "light"

\* switchTheme with the two buffers exchanged.
CuesForSwapped(actualTheme, a) ==
  IF actualTheme = "light" /\ a.switchOff THEN {"off"}
  ELSE IF actualTheme = "dark" /\ a.switchOn THEN {"on"}
  ELSE {}

\* switchTheme playing a cue only when the actual theme it computed differs
\* from the one in the state.
CuesForOnlyOnChange(actualTheme, a) ==
  IF actualTheme = state.actualTheme THEN {}
  ELSE IF actualTheme = "light" /\ a.switchOn THEN {"on"}
  ELSE IF actualTheme = "dark" /\ a.switchOff THEN {"off"}
  ELSE {}

\* The cues switchTheme hands to SoundManager.play for its computed
\* actualTheme (lines 47-51), given which buffers are loaded.
CuesFor(actualTheme, a) ==
  IF actualTheme = "light" /\ a.switchOn THEN {"on"}
  ELSE IF actualTheme = "dark" /\ a.switchOff THEN {"off"}
  ELSE {}

\* A setItem that fails to replace the value.
setItemKeepsOld(old, value) == old

\* localStorage.setItem('theme', value): the value held under the key
\* afterwards.
setItem(old, value) == value

\* An apply effect that only ever adds the class.
ApplyClassAddsOnly(actualTheme, dark) ==
  IF actualTheme = "dark" THEN TRUE ELSE dark

\* The document class the apply effect leaves for an actualTheme.
ApplyClass(actualTheme, dark) ==
  IF actualTheme = "light" THEN FALSE
  ELSE IF actualTheme = "dark" THEN TRUE
  ELSE dark

\* The calls switchTheme makes, in program order: setState (line 44),
\* localStorage.setItem (line 46), then SoundManager.play of the loaded
\* buffer (lines 47-51).
SwitchLogPlaysFirst(actualTheme, a) ==
  (IF actualTheme = "light" /\ a.switchOn THEN <<"play-on">>
   ELSE IF actualTheme = "dark" /\ a.switchOff THEN <<"play-off">>
   ELSE <<>>) \o <<"setState", "setItem">>

SwitchLog(actualTheme, a) ==
  <<"setState", "setItem">> \o
  (IF actualTheme = "light" /\ a.switchOn THEN <<"play-on">>
   ELSE IF actualTheme = "dark" /\ a.switchOff THEN <<"play-off">>
   ELSE <<>>)

\* The context a component reads with useContext(ThemeContext): the default
\* undefined (line 23) outside a provider, the provider's value (lines
\* 95-98) inside one.
NoContext == [defined |-> FALSE, displayTheme |-> NULL]
ContextValue == [defined |-> TRUE, displayTheme |-> rendered.displayTheme]

\* Outcome of a useTheme call; NoCall when the step was not one.
NoCall == [called |-> FALSE, threw |-> FALSE, displayTheme |-> NULL,
           switchTheme |-> FALSE]

\* A useTheme that returns whatever useContext gave.
useThemeUnchecked(context) ==
  [called |-> TRUE, threw |-> FALSE, displayTheme |-> context.displayTheme,
   switchTheme |-> context.defined]

\* useTheme (lines 135-141).
useTheme(context) ==
  IF ~context.defined
  THEN [called |-> TRUE, threw |-> TRUE, displayTheme |-> NULL,
        switchTheme |-> FALSE]
  ELSE [called |-> TRUE, threw |-> FALSE,
        displayTheme |-> context.displayTheme, switchTheme |-> TRUE]

\* The two handlers that write the ThemeState.
Handlers == {"switch", "notify"}

\* Record of the step just taken: the operation, the latest state before
\* it, the delivered / read OS value, and the cues it played; when a handler
\* directly follows a handler, also that handler (prevOp) and the state
\* before it (prev2); the calls of a switchTheme (log) and the outcome of a
\* useTheme (out) are filled in by those steps.
Last(op, prev, ev, cues) ==
  LET paired == op \in Handlers /\ last.op \in Handlers
  IN [op |-> op, prev |-> prev, ev |-> ev, cues |-> cues,
      prevOp |-> IF paired THEN last.op ELSE "other",
      prev2 |-> IF paired THEN last.prev ELSE prev,
      log |-> <<>>, out |-> NoCall]

\* systemThemeQuery.addEventListener('change', detectSystemThemeChange):
\* the registered listeners, each standing for the displayTheme its closure
\* captured, in registration order.
addEventListener(ls, captured) == Append(ls, captured)

\* A cleanup that removes nothing.
removeEventListenerNoop(ls, captured) == ls

\* systemThemeQuery.removeEventListener('change', detectSystemThemeChange).
RECURSIVE removeEventListener(_, _)
removeEventListener(ls, captured) ==
  IF ls = <<>> THEN ls
  ELSE IF Head(ls) = captured THEN Tail(ls)
  ELSE <<Head(ls)>> \o removeEventListener(Tail(ls), captured)

\* The displayTheme of the render whose subscription effect ran last (its
\* dependency, and the value its listener captured).
SubscribedFor ==
  IF listeners = <<>> THEN NOLISTENER ELSE listeners[Len(listeners)]

\* Effects whose dependencies differ from those of their last run.
EffectsPending ==
  \/ SubscribedFor # rendered.displayTheme
  \/ depActual # rendered.actualTheme

\* ------------------------------------------------------------------- Init
Init ==
  /\ pc = "ssr"
  /\ stored \in StoredValues
  /\ os \in BOOLEAN
  /\ pending = <<>>
  /\ state = ThemeState(NULL, NULL)
  /\ rendered = ThemeState(NULL, NULL)
  /\ listeners = <<>>
  /\ depActual = NODEP
  /\ docDark \in BOOLEAN
  /\ audio = [switchOn |-> FALSE, switchOff |-> FALSE]
  /\ last = [op |-> "load-page", prev |-> ThemeState(NULL, NULL),
             ev |-> os, cues |-> {}, prevOp |-> "other",
             prev2 |-> ThemeState(NULL, NULL), log |-> <<>>,
             out |-> NoCall]
  /\ chain = [start |-> NULL, n |-> 0]
  /\ boot = [stored |-> stored, os |-> os, dark |-> docDark]
  /\ pristine = TRUE

\* ---------------------------------------------------------------- actions
\* The inline script of the page head (lines 114-127).
BootstrapStored(s) ==
  IF s = "dark" THEN s
  ELSE IF s = "light" THEN s
  ELSE setItem(s, "system")

\* The inline script without its media-query branch.
BootstrapDarkIgnoresOs(s, o) ==
  IF s = "dark" THEN TRUE
  ELSE FALSE

\* Whether the document carries the "dark" class after the inline script:
\* every branch either adds or removes it.
BootstrapDark(s, o) ==
  IF s = "dark" THEN TRUE
  ELSE IF s = "light" THEN FALSE
  ELSE IF o THEN TRUE
  ELSE FALSE

Bootstrap ==
  /\ pc = "ssr"
  /\ pc' = "booted"
  /\ docDark' = BootstrapDark(stored, os)
  /\ stored' = BootstrapStored(stored)
  /\ boot' = [stored |-> stored, os |-> os, dark |-> docDark']
  /\ last' = Last("bootstrap", state, os, {})
  /\ UNCHANGED <<os, pending, state, rendered, listeners, depActual, audio,
                 chain, pristine>>

\* Site data cleared (by the user or another tab of the origin) between the
\* inline script and the attachment of the controller.
ClearStorage ==
  /\ pc = "booted"
  /\ stored # NULL
  /\ stored' = NULL
  /\ last' = Last("clear-storage", state, os, {})
  /\ UNCHANGED <<pc, os, pending, state, rendered, listeners, depActual,
                 docDark, audio, chain, boot, pristine>>

\* First render and commit of ThemeProvider: state is {null, null}
\* (line 27) and the children receive switchTheme (lines 95-98).
Hydrate ==
  /\ pc = "booted"
  /\ pc' = "hydrated"
  /\ rendered' = state
  /\ last' = Last("hydrate", state, os, {})
  /\ UNCHANGED <<stored, os, pending, state, listeners, depActual, docDark,
                 audio, chain, boot, pristine>>

\* The mount effects, in declaration order: initialize (lines 54-69), the
\* subscription (lines 71-85) and the apply effect (lines 87-93), all with
\* the closures of the first render.
Mount ==
  /\ pc = "hydrated"
  /\ pc' = "mounted"
  /\ LET theme == stored
         actualTheme == getActualTheme(theme, os)
     IN state' = ThemeState(theme, actualTheme)
  /\ listeners' = addEventListener(listeners, rendered.displayTheme)
  /\ depActual' = rendered.actualTheme
  /\ docDark' = ApplyClass(rendered.actualTheme, docDark)
  /\ last' = Last("initialize", state, os, {})
  /\ UNCHANGED <<stored, os, pending, rendered, audio, chain, boot,
                 pristine>>

\* A switchTheme that plays right after setState without testing the
\* buffer: with the buffer missing the call throws before setItem.
SwitchThemeThrowsOnMissingBuffer ==
  /\ pc \in {"hydrated", "mounted"}
  /\ LET displayTheme == NextDisplayTheme(rendered.displayTheme)
         actualTheme == getActualTheme(displayTheme, os)
         played == CuesFor(actualTheme, audio)
     IN /\ state' = ThemeState(displayTheme, actualTheme)
        /\ stored' = IF played = {} THEN stored
                     ELSE setItem(stored, displayTheme)
        /\ last' = Last("switch", state, os, played)
        /\ chain' = [start |-> rendered.displayTheme, n |-> 1]
  /\ pristine' = FALSE
  /\ UNCHANGED <<pc, os, pending, rendered, listeners, depActual, docDark,
                 audio, boot>>

\* The theme-color hints of the page head for the rendered actualTheme
\* (lines 103-108), with both hints emitted once the theme is known.
ThemeColorBoth(actualTheme) ==
  IF actualTheme \in {"light", "dark"} THEN {"#f7f7f7", "#1b1d22"} ELSE {}

\* The theme-color hints of the page head for the rendered actualTheme
\* (lines 103-108).
ThemeColor(actualTheme) ==
  (IF actualTheme = "light" THEN {"#f7f7f7"} ELSE {}) \cup
  (IF actualTheme = "dark" THEN {"#1b1d22"} ELSE {})

\* switchTheme (lines 40-52), called with the closure of the last commit.
SwitchTheme ==
  /\ pc \in {"hydrated", "mounted"}
  /\ LET displayTheme == NextDisplayTheme(rendered.displayTheme)
         actualTheme == getActualTheme(displayTheme, os)
     IN /\ state' = ThemeState(displayTheme, actualTheme)
        /\ stored' = setItem(stored, displayTheme)
        /\ last' = [Last("switch", state, os, CuesFor(actualTheme, audio))
                    EXCEPT !.log = SwitchLog(actualTheme, audio)]
        /\ chain' = IF chain.n \in {1, 2}
                       /\ rendered.displayTheme = state.displayTheme
                    THEN [chain EXCEPT !.n = chain.n + 1]
                    ELSE [start |-> rendered.displayTheme, n |-> 1]
  /\ pristine' = FALSE
  /\ UNCHANGED <<pc, os, pending, rendered, listeners, depActual, docDark,
                 audio, boot>>

\* The OS color scheme flips. Each run of the subscription effect creates
\* its own MediaQueryList (line 72), and a change event is fired only at a
\* list that existed when the scheme changed: the browser queues an event
\* carrying the new value for the registered listener, if there is one.
OsChange ==
  /\ Len(pending) < MaxPending
  /\ os' = ~os
  /\ pending' = IF listeners = <<>> THEN pending
                ELSE Append(pending, os')
  /\ pristine' = (pristine /\ pc = "ssr")
  /\ last' = Last("os-change", state, os', {})
  /\ UNCHANGED <<pc, stored, state, rendered, listeners, depActual, docDark,
                 audio, chain, boot>>

\* detectSystemThemeChange (lines 73-80) as registered: its guard reads the
\* displayTheme captured by the listener.
detectSystemThemeChange(captured, matches, s) ==
  IF captured = "system"
  THEN [s EXCEPT !.actualTheme = IF matches THEN "dark" ELSE "light"]
  ELSE s

\* The change event reaches every registered listener, in registration
\* order; each applies its functional update to the latest state.
RECURSIVE Dispatch(_, _, _)
Dispatch(ls, matches, s) ==
  IF ls = <<>> THEN s
  ELSE Dispatch(Tail(ls), matches,
                detectSystemThemeChange(Head(ls), matches, s))

\* The browser dispatches the oldest queued change event to the registered
\* listener.
Notify ==
  /\ pending # <<>>
  /\ listeners # <<>>
  /\ pending' = Tail(pending)
  /\ state' = Dispatch(listeners, Head(pending), state)
  /\ last' = Last("notify", state, Head(pending), {})
  /\ UNCHANGED <<pc, stored, os, rendered, listeners, depActual, docDark,
                 audio, chain, boot, pristine>>

\* React re-renders with the latest state and commits; pending effects of
\* the previous commit are flushed before a new render starts.
Render ==
  /\ pc = "mounted"
  /\ ~EffectsPending
  /\ state # rendered
  /\ rendered' = state
  /\ last' = Last("render", state, os, {})
  /\ UNCHANGED <<pc, stored, os, pending, state, listeners, depActual,
                 docDark, audio, chain, boot, pristine>>

\* The effects of the last commit whose dependencies changed: the
\* subscription is replaced (lines 71-85: the cleanup removes the listener
\* from its MediaQueryList, so the events still queued for it reach nobody,
\* and a new list gets the new listener) and the document class is applied
\* (lines 87-93).
FlushEffects ==
  /\ pc = "mounted"
  /\ EffectsPending
  /\ LET resubscribe == SubscribedFor # rendered.displayTheme
         cleaned == removeEventListener(listeners, SubscribedFor)
     IN /\ listeners' = IF resubscribe
                        THEN addEventListener(cleaned, rendered.displayTheme)
                        ELSE listeners
        /\ pending' = IF resubscribe /\ cleaned = <<>> THEN <<>>
                      ELSE pending
  /\ depActual' = rendered.actualTheme
  /\ docDark' = IF depActual # rendered.actualTheme
                THEN ApplyClass(rendered.actualTheme, docDark)
                ELSE docDark
  /\ last' = Last("effects", state, os, {})
  /\ UNCHANGED <<pc, stored, os, state, rendered, audio, chain, boot,
                 pristine>>

\* The two loadSound promises resolve independently (lines 55-60).
LoadSwitchOn ==
  /\ pc \in {"mounted", "unmounted"}
  /\ ~audio.switchOn
  /\ audio' = [audio EXCEPT !.switchOn = TRUE]
  /\ last' = Last("load-on", state, os, {})
  /\ UNCHANGED <<pc, stored, os, pending, state, rendered, listeners,
                 depActual, docDark, chain, boot, pristine>>

LoadSwitchOff ==
  /\ pc \in {"mounted", "unmounted"}
  /\ ~audio.switchOff
  /\ audio' = [audio EXCEPT !.switchOff = TRUE]
  /\ last' = Last("load-off", state, os, {})
  /\ UNCHANGED <<pc, stored, os, pending, state, rendered, listeners,
                 depActual, docDark, chain, boot, pristine>>

\* ThemeProvider unmounts: the cleanup of the subscription effect removes
\* the listener (lines 82-84).
Unmount ==
  /\ pc = "mounted"
  /\ pc' = "unmounted"
  /\ listeners' = removeEventListener(listeners, SubscribedFor)
  /\ pending' = IF listeners' = <<>> THEN <<>> ELSE pending
  /\ last' = Last("unmount", state, os, {})
  /\ UNCHANGED <<stored, os, state, rendered, depActual, docDark, audio,
                 chain, boot, pristine>>

\* A component under the provider calls useTheme during a render.
UseThemeInside ==
  /\ pc \in {"hydrated", "mounted"}
  /\ last' = [Last("use-theme-inside", state, os, {})
              EXCEPT !.out = useTheme(ContextValue)]
  /\ UNCHANGED <<pc, stored, os, pending, state, rendered, listeners,
                 depActual, docDark, audio, chain, boot, pristine>>

\* A component with no ThemeProvider above it calls useTheme.
UseThemeOutside ==
  /\ last' = [Last("use-theme-outside", state, os, {})
              EXCEPT !.out = useTheme(NoContext)]
  /\ UNCHANGED <<pc, stored, os, pending, state, rendered, listeners,
                 depActual, docDark, audio, chain, boot, pristine>>

Next ==
  \/ Bootstrap
  \/ ClearStorage
  \/ Hydrate
  \/ Mount
  \/ SwitchTheme
  \/ OsChange
  \/ Notify
  \/ Render
  \/ FlushEffects
  \/ LoadSwitchOn
  \/ LoadSwitchOff
  \/ Unmount
  \/ UseThemeInside
  \/ UseThemeOutside

Spec == Init /\ [][Next]_vars

\* React renders after every setState and runs the effects of every commit.
SpecLive == Spec /\ WF_vars(Render) /\ WF_vars(FlushEffects)

\* ------------------------------------------------------------------ types
TypeOK ==
  /\ pc \in {"ssr", "booted", "hydrated", "mounted", "unmounted"}
  /\ stored \in StoredValues
  /\ os \in BOOLEAN
  /\ Len(pending) <= MaxPending
  /\ state.displayTheme \in DisplayThemes \cup {NULL}
  /\ state.actualTheme \in ActualThemes \cup {NULL}
  /\ \A i \in 1..Len(listeners) : listeners[i] \in DisplayThemes \cup {NULL}
  /\ docDark \in BOOLEAN

\* ----------------------------------------------------------------- claims
OsTheme(o) == IF o THEN "dark" ELSE "light"

\* C1: after initialize, whenever the controller is at rest (no OS change
\* event queued, the latest state rendered, its effects run) and the
\* preference is one of Light/Dark/System, the actual theme is Light for
\* Light, Dark for Dark and the current OS color scheme for System.
C1_ActualIsResolved ==
  (/\ pc = "mounted"
   /\ pending = <<>>
   /\ rendered = state
   /\ ~EffectsPending
   /\ state.displayTheme \in DisplayThemes)
  => /\ state.displayTheme = "light" => state.actualTheme = "light"
     /\ state.displayTheme = "dark" => state.actualTheme = "dark"
     /\ state.displayTheme = "system" => state.actualTheme = OsTheme(os)

\* C2: a switchTheme that read preference p leaves the successor of p in the
\* order Light -> Dark -> System -> Light (always one of the three), and
\* three successive switchTheme calls, each reading the result of the one
\* before, leave the preference the first of them read.
C2_CycleOfThree ==
  /\ last.op = "switch" =>
       /\ state.displayTheme \in DisplayThemes
       /\ rendered.displayTheme = "light" => state.displayTheme = "dark"
       /\ rendered.displayTheme = "dark" => state.displayTheme = "system"
       /\ rendered.displayTheme = "system" => state.displayTheme = "light"
  /\ (chain.n = 3 /\ chain.start \in DisplayThemes) =>
       state.displayTheme = chain.start

C2_Witness ==
  /\ last.op = "switch"
  /\ chain.n = 3
  /\ chain.start = "dark"
  /\ state.displayTheme = "dark"

\* C3: once switchTheme has been called, the value stored under 'theme' is
\* the in-memory preference, in every later state; from Light the call
\* leaves preference Dark, actual Dark and "dark" in storage.
C3_StoredIsPreference ==
  /\ chain.n > 0 => stored = state.displayTheme
  /\ (last.op = "switch" /\ rendered.displayTheme = "light") =>
       /\ state = ThemeState("dark", "dark")
       /\ stored = "dark"

C3_Witness ==
  /\ last.op = "switch"
  /\ rendered.displayTheme = "light"
  /\ last.prev = ThemeState("light", "light")
  /\ state = ThemeState("dark", "dark")
  /\ stored = "dark"

\* C4: an OS change event dispatched while the preference is Light or Dark
\* leaves the ThemeState as it was.
C4_DroppedUnlessSystem ==
  (/\ last.op = "notify"
   /\ last.prev.displayTheme \in {"light", "dark"})
  => state = last.prev

\* C5: an OS change event dispatched to the attached controller while the
\* preference is System sets actual to Dark for true and Light for false,
\* and leaves the preference, the stored value and the played cues alone.
C5_AppliedWhenSystem ==
  [][(/\ Notify
      /\ pc = "mounted"
      /\ state.displayTheme = "system")
     => /\ state'.actualTheme = OsTheme(Head(pending))
        /\ state'.displayTheme = state.displayTheme
        /\ stored' = stored
        /\ last'.cues = {}]_vars

\* C6: the inline script follows its decision table: stored "dark" marks
\* the document dark and stored "light" removes the mark, both leaving the
\* storage as it was; any other or absent value marks the document dark iff
\* the OS prefers dark and stores "system".
C6_BootstrapTable ==
  last.op = "bootstrap" =>
    /\ boot.stored = "dark" => (docDark /\ stored = "dark")
    /\ boot.stored = "light" => (~docDark /\ stored = "light")
    /\ boot.stored \notin {"dark", "light"} =>
         /\ docDark = boot.os
         /\ stored = "system"

C6_Witness ==
  /\ last.op = "bootstrap"
  /\ boot.stored = NULL
  /\ boot.os
  /\ docDark
  /\ stored = "system"

\* C7: as long as the OS color scheme has not changed since the inline
\* script ran and switchTheme has not been called, the document mark is the
\* one the inline script applied: initialize and the apply effect do not
\* flip it.
C7_NoFlipOnAttach ==
  (pristine /\ pc \in {"booted", "hydrated", "mounted"}) =>
    docDark = boot.dark

C7_Witness ==
  /\ pristine
  /\ pc = "mounted"
  /\ last.op = "effects"
  /\ boot.stored = "light"
  /\ boot.os
  /\ state = ThemeState("light", "light")
  /\ depActual = "light"
  /\ ~docDark

\* C8: a switchTheme plays at most one cue, and which one depends only on
\* the actual theme it leaves: switch-on iff that is Light and the
\* switch-on buffer is loaded, switch-off iff that is Dark and the
\* switch-off buffer is loaded.
C8_CueFromResultingActual ==
  last.op = "switch" =>
    /\ Cardinality(last.cues) <= 1
    /\ "on" \in last.cues <=> (state.actualTheme = "light" /\ audio.switchOn)
    /\ "off" \in last.cues <=> (state.actualTheme = "dark" /\ audio.switchOff)

C8_Witness ==
  /\ last.op = "switch"
  /\ last.prev = ThemeState("system", "light")
  /\ state = ThemeState("light", "light")
  /\ audio.switchOn
  /\ audio.switchOff
  /\ last.cues = {"on"}

\* C9 as stated: a switchTheme that changes the preference and leaves the
\* actual theme as it was plays no cue.
C9_NoCueWhenActualUnchanged ==
  (/\ last.op = "switch"
   /\ last.prev.displayTheme # state.displayTheme
   /\ last.prev.actualTheme = state.actualTheme)
  => last.cues = {}

BufferLoaded(actualTheme) ==
  IF actualTheme = "light" THEN audio.switchOn
  ELSE IF actualTheme = "dark" THEN audio.switchOff
  ELSE FALSE

\* C9 amended: a switchTheme that changes the preference and leaves the
\* actual theme as it was plays no cue only if the buffer of the cue for
\* that actual theme is not loaded; if it is loaded, that cue is played.
C9_CueEvenWhenActualUnchanged ==
  (/\ last.op = "switch"
   /\ last.prev.displayTheme # state.displayTheme
   /\ last.prev.actualTheme = state.actualTheme)
  => /\ last.cues = {} <=> ~BufferLoaded(state.actualTheme)
     /\ BufferLoaded(state.actualTheme) =>
          last.cues = {IF state.actualTheme = "light" THEN "on" ELSE "off"}

C9_Witness ==
  /\ last.op = "switch"
  /\ last.prev = ThemeState("dark", "dark")
  /\ state = ThemeState("system", "dark")
  /\ os
  /\ audio.switchOff
  /\ last.cues = {"off"}

\* C10: when initialize reads no stored preference (getItem gave null, which
\* it stores as the preference), the actual theme becomes the current OS
\* color scheme, and the stored value stays absent.
C10_AbsentResolvesAsSystem ==
  (last.op = "initialize" /\ state.displayTheme = NULL) =>
    /\ state.actualTheme = OsTheme(os)
    /\ stored = NULL

\* What a switchTheme that read preference p leaves, with OS signal o.
AfterSwitch(p, o) ==
  IF p = "light" THEN ThemeState("dark", "dark")
  ELSE IF p = "dark" THEN ThemeState("system", OsTheme(o))
  ELSE ThemeState("light", "light")

\* C11: whatever buffers are loaded, switchTheme leaves the state and the
\* stored value that follow from the preference it read and the OS signal,
\* and initialize those that follow from the stored value; a switch whose
\* buffer is missing plays nothing and still completes; a buffer finishing
\* its load, at any time, changes neither the state nor the stored value.
C11_AudioNeverAffectsTheme ==
  /\ [](last.op = "switch" =>
         /\ state = AfterSwitch(rendered.displayTheme, os)
         /\ stored = state.displayTheme
         /\ ~BufferLoaded(state.actualTheme) => last.cues = {})
  /\ [](last.op = "initialize" => state.displayTheme = stored)
  /\ [][(LoadSwitchOn \/ LoadSwitchOff) =>
          (state' = state /\ stored' = stored)]_vars

\* A toggle before either buffer is loaded, then the switch-off buffer
\* loads before the switch-on one and a toggle to Light plays nothing.
C11_Witness ==
  /\ last.op = "switch"
  /\ chain.n = 3
  /\ audio.switchOff
  /\ ~audio.switchOn
  /\ state = ThemeState("light", "light")
  /\ stored = "light"
  /\ last.cues = {}

\* C12: once the actual theme of the attached controller is a (Light or
\* Dark), the apply effect eventually runs for a and leaves the document
\* marked dark iff a is Dark, unless the actual theme changes again or the
\* controller detaches first; whenever the apply effect has run for a value
\* the mark is that of the value; and an apply effect that finds the
\* document already marked for its value leaves the mark as it is.
C12_DocumentFollowsActual ==
  /\ \A a \in ActualThemes :
       (pc = "mounted" /\ state.actualTheme = a)
         ~> \/ pc = "unmounted"
            \/ state.actualTheme # a
            \/ (depActual = a /\ docDark = (a = "dark"))
  /\ [](depActual \in ActualThemes => docDark = (depActual = "dark"))
  /\ [][(/\ FlushEffects
         /\ rendered.actualTheme \in ActualThemes
         /\ docDark = (rendered.actualTheme = "dark"))
        => docDark' = docDark]_vars

C12_Witness ==
  /\ last.op = "effects"
  /\ last.prev.actualTheme = "light"
  /\ ~pristine
  /\ boot.dark
  /\ depActual = "light"
  /\ ~docDark

\* C13: the head of the committed render carries at most one theme-color
\* hint: #f7f7f7 iff the rendered actual theme is Light, #1b1d22 iff it is
\* Dark, none while it is unset.
C13_OneThemeColor ==
  /\ Cardinality(ThemeColor(rendered.actualTheme)) <= 1
  /\ "#f7f7f7" \in ThemeColor(rendered.actualTheme)
       <=> rendered.actualTheme = "light"
  /\ "#1b1d22" \in ThemeColor(rendered.actualTheme)
       <=> rendered.actualTheme = "dark"
  /\ rendered.actualTheme = NULL => ThemeColor(rendered.actualTheme) = {}

C13_Witness ==
  /\ last.op = "render"
  /\ rendered.actualTheme = "dark"
  /\ ThemeColor(rendered.actualTheme) = {"#1b1d22"}

\* C14: useTheme with no provider above throws and returns no controller;
\* under the provider it returns the rendered preference and switchTheme.
C14_UseThemeNeedsProvider ==
  /\ last.op = "use-theme-outside" =>
       /\ last.out.called
       /\ last.out.threw
       /\ ~last.out.switchTheme
  /\ last.op = "use-theme-inside" =>
       /\ last.out.called
       /\ ~last.out.threw
       /\ last.out.switchTheme
       /\ last.out.displayTheme = rendered.displayTheme

C14_Witness ==
  /\ last.op = "use-theme-outside"
  /\ last.out.threw
  /\ pc = "mounted"
  /\ state.displayTheme = "dark"

\* C15: when switchTheme is called twice with nothing in between, the
\* first call having read the current preference p, the preference ends two
\* steps after p in the cycle and the stored value is that preference.
C15_TwoTogglesAdvanceTwo ==
  (/\ last.op = "switch"
   /\ last.prevOp = "switch"
   /\ last.prev2.displayTheme \in DisplayThemes
   /\ rendered.displayTheme = last.prev2.displayTheme)
  => /\ last.prev.displayTheme =
          AfterSwitch(last.prev2.displayTheme, os).displayTheme
     /\ state.displayTheme =
          AfterSwitch(last.prev.displayTheme, os).displayTheme
     /\ stored = state.displayTheme

\* The OS change handler applied to the state current at delivery.
AfterNotify(s, matches) ==
  IF s.displayTheme = "system"
  THEN [s EXCEPT !.actualTheme = OsTheme(matches)]
  ELSE s

\* C16: when a switchTheme and the delivery of an OS change event follow
\* each other, in either order, the second leaves what its handler gives on
\* the state the first left: the event is applied iff the preference is
\* System when it is delivered, and the switch advances the preference it
\* finds.
C16_LastWriterWins ==
  /\ (/\ pc = "mounted"
      /\ last.op = "notify"
      /\ last.prevOp = "switch")
     => state = AfterNotify(last.prev, last.ev)
  /\ (/\ pc = "mounted"
      /\ last.op = "switch"
      /\ last.prevOp = "notify"
      /\ rendered.displayTheme = last.prev.displayTheme)
     => state = AfterSwitch(last.prev.displayTheme, os)

\* C17: the calls of one switchTheme are, in order, the state update, the
\* durable write, and then at most one cue play: no cue is played before
\* the durable write, and a cue is played iff the call played one.
C17_StateThenStorageThenCue ==
  last.op = "switch" =>
    /\ Len(last.log) \in {2, 3}
    /\ last.log[1] = "setState"
    /\ last.log[2] = "setItem"
    /\ \A i \in 1..Len(last.log) :
         last.log[i] \in {"play-on", "play-off"} =>
           \E j \in 1..(i - 1) : last.log[j] = "setItem"
    /\ Len(last.log) = 3 <=> last.cues # {}
    /\ "on" \in last.cues => last.log[3] = "play-on"
    /\ "off" \in last.cues => last.log[3] = "play-off"

C17_Witness ==
  /\ last.op = "switch"
  /\ state = ThemeState("dark", "dark")
  /\ stored = "dark"
  /\ last.log = <<"setState", "setItem", "play-off">>

\* C18: a switchTheme called while the preference is unset leaves preference
\* Light, actual Light and "light" in storage.
C18_UnsetStartsAtLight ==
  (last.op = "switch" /\ last.prev.displayTheme = NULL) =>
    /\ state = ThemeState("light", "light")
    /\ stored = "light"

\* The stored preference was absent at initialize, and the first toggle
\* comes with the OS preferring dark.
C18_Witness ==
  /\ last.op = "switch"
  /\ pc = "mounted"
  /\ last.prev = ThemeState(NULL, NULL)
  /\ os
  /\ state = ThemeState("light", "light")
  /\ stored = "light"

\* C19: at most one change listener is registered at any time; after the
\* subscription effect has run the listener is the one of the rendered
\* preference; after the controller has detached none is registered and no
\* step changes the ThemeState.
C19_OneListenerReleasedOnDetach ==
  /\ [](Len(listeners) <= 1)
  /\ [](last.op = "effects" => listeners = <<rendered.displayTheme>>)
  /\ [](pc = "unmounted" => listeners = <<>> /\ pending = <<>>)
  /\ [][pc = "unmounted" => state' = state]_vars

\* The OS turns dark after the detach, the preference being System.
C19_Witness ==
  /\ pc = "unmounted"
  /\ last.op = "os-change"
  /\ os
  /\ state = ThemeState("system", "light")
  /\ listeners = <<>>

\* C20: once the inline script and initialize have run, the preference is
\* one of Light/Dark/System, the actual theme one of Light/Dark, the stored
\* value one of "light", "dark", "system", and the preference is unset
\* exactly when the actual theme is.
C20_ValuesKnownAfterInitialize ==
  pc \in {"mounted", "unmounted"} =>
    /\ state.displayTheme \in DisplayThemes
    /\ state.actualTheme \in ActualThemes
    /\ stored \in DisplayThemes
    /\ state.displayTheme = NULL <=> state.actualTheme = NULL

====
